---- MODULE Spec2Model ----
(***************************************************************************)
(* Character and Story lifecycle of genstory: the entity store (tables     *)
(* characters and stories), the service methods of CharacterService and    *)
(* StoryService, and the generation gateway of app.utils.openai_client.    *)
(* Every request runs on its own session and commits at most once, so one  *)
(* action is one request.                                                  *)
(***************************************************************************)
EXTENDS Integers, Sequences, FiniteSets, TLC

\* ------------------------------------------------------------------------
\* Bounds
\* ------------------------------------------------------------------------
MaxCharacters == 2
MaxStories == 1
MaxInflight == 2

Users == {"u1", "u2"}
CharIds == 1..MaxCharacters
StoryIds == 1..MaxStories

\* ------------------------------------------------------------------------
\* Python values: a nullable column holds None or one value
\* ------------------------------------------------------------------------
None == <<>>
Some(v) == <<v>>

\* CharacterStatus (app/db/models.py)
CharacterStatus == {"draft", "generated", "finalized"}

\* Request bodies (CharacterInput of app/schemas/characters.py): an optional
\* name, a description, an optional list of traits.
Trait == [trait_title |-> "Bravery", trait_value |-> "High"]
CharacterInput ==
    { [name |-> None, description |-> "A curious fox", traits |-> Some(<<>>)],
      [name |-> Some("Finn"), description |-> "A brave fox", traits |-> Some(<<Trait>>)] }

\* StoryService reads id, user_id and status of a character and none of its
\* other columns: the story lifecycle runs over characters of one request body
StoryCast == { data \in CharacterInput : data.name # None }

\* Request bodies of POST /characters, the body with traits null included
RoundTripInput ==
    CharacterInput
    \cup {[name |-> Some("Finn"), description |-> "A brave fox", traits |-> None]}

\* Trait.model_dump(): the trait as a plain mapping
model_dump(trait) == [trait_title |-> trait.trait_title, trait_value |-> trait.trait_value]

\* [trait.model_dump() for trait in data.traits] if data.traits else None:
\* an absent and an empty list are both stored as None
dump_traits(traits) ==
    IF traits = None \/ traits[1] = <<>>
    THEN None
    ELSE Some([i \in 1..Len(traits[1]) |-> model_dump(traits[1][i])])

\* ------------------------------------------------------------------------
\* Generation gateway (app/utils/openai_client.py)
\* ------------------------------------------------------------------------
\* What the provider does with client.beta.chat.completions.parse: answers
\* with a parsed EnhancedCharacter, answers without choices, or raises
\* (network error, timeout, unparsable output).
ProviderOutcomes == {"parsed", "no_choices", "error"}

\* The structure the provider parses into (EnhancedCharacter)
EnhancedCharacter ==
    [optimized_name |-> "Finn the Fox",
     optimized_description |-> "A bright-eyed fox",
     optimized_traits |-> <<[name |-> "Bravery", value |-> "High"]>>,
     optimized_story_context |-> "A forest at dawn"]

\* Python objects handed from the gateway to the service
PyRaise(exc) == [type |-> "raise", exc |-> exc]
PyNone == [type |-> "NoneType"]
PyTuple(items) == [type |-> "tuple", items |-> items]
PyDict(map) == [type |-> "dict", map |-> map]

\* The name cofig (line 54) is bound nowhere in the module
cofig_bound == FALSE

\* Faulty variant: the client is built and a parsed answer is returned as its mapping
generate_character_with_openai_returns_dict(provider) ==
    CASE provider = "parsed" -> PyDict(EnhancedCharacter)
      [] provider = "no_choices" -> PyNone
      [] OTHER -> PyTuple(<<"None", "No ID found">>)

\* Faulty variant: the except branch hands back a default-filled mapping
generate_character_with_openai_default_on_failure(provider) ==
    PyDict([optimized_name |-> "", optimized_description |-> "",
            optimized_traits |-> <<>>, optimized_story_context |-> ""])

\* generate_character_with_openai: OpenAI(api_key=cofig) is evaluated
\* before the try block; past it, a parsed answer returns the pair
\* (optimized_name, response.id), no choices falls off the end (None), an
\* exception returns the pair (None, "No ID found").
generate_character_with_openai(provider) ==
    IF ~cofig_bound
    THEN PyRaise("NameError")
    ELSE CASE provider = "parsed" ->
                PyTuple(<<EnhancedCharacter.optimized_name, "chatcmpl-1">>)
           [] provider = "no_choices" -> PyNone
           [] OTHER -> PyTuple(<<"None", "No ID found">>)

\* obj[key] with a string key: defined on a mapping that has the key,
\* TypeError on a tuple or None, KeyError on a mapping without the key
CanSubscript(obj, key) ==
    /\ obj.type = "dict"
    /\ key \in DOMAIN obj.map

\* What the provider does with client.chat.completions.create of the story
\* calls: answers with a JSON object that has the three refined fields, with
\* a JSON object that lacks one of them, without choices, or the call raises
\* inside the try block (network error, timeout, content that is no JSON).
StoryProviderOutcomes == {"complete", "partial", "no_choices", "error"}

\* A JSON object with the fields refine_story_details reads
StoryDetails ==
    [optimized_title |-> "The Fox, the Owl and the Whispering Forest",
     optimized_description |-> "Two unlikely friends learn to trust each other",
     character_roles |-> <<[name |-> "Finn", role |-> "hero"]>>]

\* A JSON object without character_roles
PartialStoryDetails ==
    [optimized_title |-> StoryDetails.optimized_title,
     optimized_description |-> StoryDetails.optimized_description]

\* Faulty variant: the failure branches hand back a default-filled mapping
generate_story_details_with_openai_default_on_failure(provider) ==
    CASE provider = "complete" -> PyDict(StoryDetails)
      [] OTHER -> PyDict([optimized_title |-> "", optimized_description |-> "",
                          character_roles |-> <<>>])

\* generate_story_details_with_openai: json.loads(message_content) of the
\* first choice is returned as it is; no choices, a JSONDecodeError and every
\* other exception return {}.
generate_story_details_with_openai(provider) ==
    CASE provider = "complete" -> PyDict(StoryDetails)
      [] provider = "partial" -> PyDict(PartialStoryDetails)
      [] OTHER -> PyDict(<<>>)

\* Faulty variant: the sentences are read from the parsed JSON object
generate_story_content_reads_parsed(provider) ==
    CASE provider \in {"complete", "partial"} ->
            PyDict([sentences |-> <<"Once upon a time">>])
      [] OTHER -> PyDict(<<>>)

\* generate_story_content: with choices, message_content["sentences"]
\* subscripts a str with a str (TypeError), caught by except Exception; no
\* choices and every exception return {} as well.
generate_story_content(provider) ==
    CASE provider \in {"complete", "partial"} -> PyDict(<<>>)
      [] OTHER -> PyDict(<<>>)

\* ------------------------------------------------------------------------
\* Grok gateway (app/utils/grok_client.py)
\* ------------------------------------------------------------------------
\* What one client.post of post_with_retry meets: a 2xx response whose
\* content is the JSON object asked for (bare or in a ```json fence), lacks a
\* key, is no JSON or has no choices; an httpx.RequestError (the request
\* did not get through: connection failure, timeout); or a response with an
\* error status, which response.raise_for_status() turns into
\* httpx.HTTPStatusError
GrokResponses == {"valid", "valid_fenced", "missing_key", "unparsable", "no_choices"}
GrokErrors == {"RequestError", "HTTPStatusError"}

\* post_with_retry(url, headers, payload, retries=3, delay=5)
retries == 3

\* Faulty variant: the loop makes one attempt more than retries
retry_after_once_more(attempts) == Len(attempts) - 1 < retries

\* lines 80-84, after the attempts made so far (the last one raised): both
\* exception classes are caught; the call sleeps and goes on while
\* attempt < retries - 1, and raises the exception otherwise
retry_after(attempts) == Len(attempts) - 1 < retries - 1

\* lines 88-108: the parsed content with all six keys is returned, every
\* exception of the block is raised again as ValueError
parse_grok_response(response) ==
    IF response \in {"valid", "valid_fenced"}
    THEN PyDict([name |-> "Finn", description |-> "A brave fox",
                 optimized_description |-> "A bright-eyed fox",
                 generated_traits |-> [brave |-> TRUE],
                 story_context |-> "A forest at dawn",
                 generated_summary |-> "A fox finds courage"])
    ELSE PyRaise("ValueError")

\* no call of a gateway function under way
GatewayIdle == [fn |-> "none", pc |-> "idle", attempts |-> <<>>, result |-> PyNone]

\* not obj, for the values a JSON column holds: None and {} are falsy
Falsy(obj) == obj = None \/ obj[1] = <<>>

\* ------------------------------------------------------------------------
\* Entity store and request log
\* ------------------------------------------------------------------------
VARIABLES
    characters,         \* table characters: id -> row
    stories,            \* table stories: id -> row
    next_character_id,  \* ids handed out so far (uuid4 never repeats)
    next_story_id,
    images,             \* table images: the rows in insertion order
    generated_ok,       \* history: ids of the characters a generate call wrote
    gateway,            \* the call of a gateway function that is under way
    inflight,           \* requests between their read and their commit
    legacy,             \* table characters and last answer of the legacy router
    last                \* the request served last and its response

vars == <<characters, stories, next_character_id, next_story_id, images,
          generated_ok, gateway, inflight, legacy, last>>

\* Columns of the tables (app/db/models.py); a column left out of the model
\* (created_at, updated_at, generated_summary) is read by no status check
CharacterRows ==
    [user_id : Users,
     character_name : {None} \cup {Some(d.name[1]) : d \in {x \in CharacterInput : x.name # None}},
     optimized_name : {None, Some(EnhancedCharacter.optimized_name)},
     character_description : {d.description : d \in CharacterInput},
     optimized_description : {None, Some(EnhancedCharacter.optimized_description)},
     character_traits : {dump_traits(d.traits) : d \in CharacterInput},
     optimized_traits : {None, Some(EnhancedCharacter.optimized_traits)},
     character_story_context : {None},
     optimized_story_context : {None, Some(EnhancedCharacter.optimized_story_context)},
     status : CharacterStatus]

\* HTTPException(status_code, detail) or a 200 response, with the tables as
\* committed, the number of gateway invocations made while serving and the
\* ids of the entities whose projection the response carries
Response(status_code, detail, chars, strs, gateway_calls) ==
    [status_code |-> status_code, detail |-> detail,
     characters |-> chars, stories |-> strs, images |-> images,
     gateway_calls |-> gateway_calls, returned |-> {}]

\* return entity.to_response() / [entity.to_response() for entity in ...]
Returning(r, ids) == [r EXCEPT !.returned = ids]

OptimizedFields ==
    {"optimized_name", "optimized_description", "optimized_traits",
     "optimized_story_context"}

\* Faulty variant: the query is not scoped by Character.user_id
select_character_any_owner(character_id, user) ==
    IF character_id \in DOMAIN characters
    THEN Some(characters[character_id])
    ELSE None

\* select(Character).where(Character.id == character_id,
\*                         Character.user_id == user.id) ... .first()
select_character(character_id, user) ==
    IF character_id \in DOMAIN characters /\ characters[character_id].user_id = user
    THEN Some(characters[character_id])
    ELSE None

\* ------------------------------------------------------------------------
\* CharacterService (app/services/character_service.py)
\* ------------------------------------------------------------------------
\* Character(...) of create_character: the columns not passed are null
new_character(data, user) ==
    [user_id |-> user,
     character_name |-> data.name,
     optimized_name |-> None,
     character_description |-> data.description,
     optimized_description |-> None,
     character_traits |-> dump_traits(data.traits),
     optimized_traits |-> None,
     character_story_context |-> None,
     optimized_story_context |-> None,
     status |-> "draft"]

create_character(data, user) ==
    Returning(Response(200, "",
                       characters @@ (next_character_id :> new_character(data, user)),
                       stories, 0),
              {next_character_id})

\* Faulty variant: the status check of generate_character is dropped
can_generate_any_status(character) == TRUE

\* character.status in {CharacterStatus.draft, CharacterStatus.generated}
can_generate(character) == character.status \in {"draft", "generated"}

\* generated_data["optimized_name"] ... generated_data["optimized_story_context"]
\* (lines 67-72) all evaluate; an exception raised by the gateway call itself
\* or by a subscript ends the request before db.commit()
subscripts_succeed(generated_data) ==
    \A k \in OptimizedFields : CanSubscript(generated_data, k)

\* lines 67-74: the assignments made from the gateway's mapping
merge_generated(character, generated_data) ==
    [character EXCEPT
        !.optimized_name = Some(generated_data.map.optimized_name),
        !.optimized_description = Some(generated_data.map.optimized_description),
        !.optimized_traits = Some(generated_data.map.optimized_traits),
        !.optimized_story_context = Some(generated_data.map.optimized_story_context),
        !.status = "generated"]

\* Faulty variant: the gateway is called before the status is looked at
generate_character_calls_first(character_id, user, provider) ==
    LET found == select_character(character_id, user) IN
    IF found = None
    THEN Response(404, "Character not found", characters, stories, 0)
    ELSE LET generated_data == generate_character_with_openai(provider) IN
         IF ~can_generate(found[1])
         THEN Response(400, "Character must be in draft or generated status.",
                       characters, stories, 1)
         ELSE IF ~subscripts_succeed(generated_data)
         THEN Response(500, "Failed to generate character", characters, stories, 1)
         ELSE Returning(Response(200, "",
                                 [characters EXCEPT
                                    ![character_id] =
                                        merge_generated(found[1], generated_data)],
                                 stories, 1),
                        {character_id})

generate_character(character_id, user, provider) ==
    LET found == select_character(character_id, user) IN
    IF found = None
    THEN Response(404, "Character not found", characters, stories, 0)
    ELSE IF ~can_generate(found[1])
    THEN Response(400, "Character must be in draft or generated status.",
                  characters, stories, 0)
    ELSE LET generated_data == generate_character_with_openai(provider) IN
         IF ~subscripts_succeed(generated_data)
         THEN Response(500, "Failed to generate character", characters, stories, 1)
         ELSE Returning(Response(200, "",
                                 [characters EXCEPT
                                    ![character_id] =
                                        merge_generated(found[1], generated_data)],
                                 stories, 1),
                        {character_id})

\* Faulty variant: the lock of update_character is dropped
is_locked_never(character) == FALSE

\* Faulty variant: the lock of update_character tests the wrong status
is_locked_when_generated(character) == character.status = "generated"

\* character.status == CharacterStatus.finalized
is_locked(character) == character.status = "finalized"

\* Faulty variant: the name is copied into optimized_name instead of clearing it
overwrite_copies_name(character, data) ==
    [character EXCEPT
        !.character_name = data.name,
        !.optimized_name = data.name,
        !.character_description = data.description,
        !.optimized_description = None,
        !.character_traits = dump_traits(data.traits),
        !.optimized_traits = None,
        !.status = "generated"]

\* lines 106-115 of update_character
overwrite(character, data) ==
    [character EXCEPT
        !.character_name = data.name,
        !.optimized_name = None,
        !.character_description = data.description,
        !.optimized_description = None,
        !.character_traits = dump_traits(data.traits),
        !.optimized_traits = None,
        !.status = "generated"]

update_character(character_id, data, user) ==
    LET found == select_character(character_id, user) IN
    IF found = None
    THEN Response(404, "Character not found", characters, stories, 0)
    ELSE IF is_locked(found[1])
    THEN Response(400, "Finalized characters cannot be modified.",
                  characters, stories, 0)
    ELSE Returning(Response(200, "",
                            [characters EXCEPT
                               ![character_id] = overwrite(found[1], data)],
                            stories, 0),
                   {character_id})

\* Faulty variant: finalize rejects only the finalized status
can_finalize_unless_finalized(character) == character.status # "finalized"

\* the negation of character.status != CharacterStatus.generated
can_finalize(character) == character.status = "generated"

\* Faulty variant: finalize also drops the traits of the character
finalize_character_drops_traits(character_id, user) ==
    LET found == select_character(character_id, user) IN
    IF found = None
    THEN Response(404, "Character not found", characters, stories, 0)
    ELSE IF ~can_finalize(found[1])
    THEN Response(400, "Only generated characters can be finalized.",
                  characters, stories, 0)
    ELSE Returning(Response(200, "",
                            [characters EXCEPT ![character_id].status = "finalized",
                                               ![character_id].character_traits = None],
                            stories, 0),
                   {character_id})

finalize_character(character_id, user) ==
    LET found == select_character(character_id, user) IN
    IF found = None
    THEN Response(404, "Character not found", characters, stories, 0)
    ELSE IF ~can_finalize(found[1])
    THEN Response(400, "Only generated characters can be finalized.",
                  characters, stories, 0)
    ELSE Returning(Response(200, "",
                            [characters EXCEPT ![character_id].status = "finalized"],
                            stories, 0),
                   {character_id})

delete_character(character_id, user) ==
    LET found == select_character(character_id, user) IN
    IF found = None
    THEN Response(404, "Character not found", characters, stories, 0)
    ELSE Response(200, "Character deleted successfully.",
                  [c \in DOMAIN characters \ {character_id} |-> characters[c]],
                  stories, 0)

\* ------------------------------------------------------------------------
\* StoryService (app/services/story_service.py) and its request body
\* ------------------------------------------------------------------------
StoryStatus == {"draft", "generated", "finalized", "published", "archived"}

\* validate_character_ids: len(v) < 2 raises ValueError
MinCharacterIds == 2

\* Faulty variant: a list of one id passes
validate_character_ids_accepts_one(v) == Len(v) >= MinCharacterIds - 1

validate_character_ids(v) == Len(v) >= MinCharacterIds

\* Request bodies (StoryInput of app/schemas/stories.py); the lists of
\* character ids are all lists up to the shortest length the validator lets
\* through, over the ids that can exist
StoryInput ==
    { [title |-> "The Fox and the Owl",
       description |-> "Two friends cross the forest",
       character_ids |-> ids] :
      ids \in UNION { [1..n -> CharIds] : n \in 0..MinCharacterIds } }

\* Request bodies of PUT /stories/{id} with a field null or too short
PartialStoryUpdate ==
    [title : {None, Some("Owl"), Some("The Owl and the Fox")},
     description : {None, Some("Two friends cross the river")}]

StoryRows ==
    [user_id : Users,
     title : {story.title : story \in StoryInput}
             \cup {b.title[1] : b \in {x \in PartialStoryUpdate : x.title # None}},
     optimized_title : {None, Some(StoryDetails.optimized_title)},
     description : {story.description : story \in StoryInput}
                   \cup {b.description[1] :
                           b \in {x \in PartialStoryUpdate : x.description # None}},
     optimized_description : {None, Some(StoryDetails.optimized_description)},
     character_ids : {story.character_ids : story \in StoryInput},
     character_roles : {None, Some(StoryDetails.character_roles)},
     content : {None, Some(<<>>)},
     status : StoryStatus]

\* Columns of table images as create_story_cover_image fills them
ImageRows == [story_id : StoryIds, base64_data : {"aGVsbG8="}]

TypeOK ==
    /\ DOMAIN characters \subseteq CharIds
    /\ \A c \in DOMAIN characters : characters[c] \in CharacterRows
    /\ DOMAIN stories \subseteq StoryIds
    /\ \A s \in DOMAIN stories : stories[s] \in StoryRows
    /\ next_character_id \in 1..(MaxCharacters + 1)
    /\ next_story_id \in 1..(MaxStories + 1)
    /\ images \in Seq(ImageRows)
    /\ generated_ok \subseteq CharIds
    /\ gateway.pc \in {"idle", "post", "sleep", "done"}
    /\ Len(gateway.attempts) <= retries
    /\ Cardinality(inflight) <= MaxInflight

\* Faulty variant: the status filter of the query is dropped
eligible_characters_any_status(character_ids, user) ==
    { c \in DOMAIN characters :
        /\ \E i \in 1..Len(character_ids) : character_ids[i] = c
        /\ characters[c].user_id = user }

\* select(Character).where(Character.id.in_(ids), Character.user_id == user.id,
\*     Character.status.in_([generated, finalized])): the matching rows, each once
eligible_characters(character_ids, user) ==
    { c \in DOMAIN characters :
        /\ \E i \in 1..Len(character_ids) : character_ids[i] = c
        /\ characters[c].user_id = user
        /\ characters[c].status \in {"generated", "finalized"} }

\* Faulty variant: the character ids are stored in reverse order
new_story_reverses_ids(story, user) ==
    [user_id |-> user,
     title |-> story.title,
     optimized_title |-> None,
     description |-> story.description,
     optimized_description |-> None,
     character_ids |-> [i \in 1..Len(story.character_ids) |->
                          story.character_ids[Len(story.character_ids) + 1 - i]],
     character_roles |-> None,
     content |-> None,
     status |-> "draft"]

\* Story(...) of create_story: the columns not passed are null
new_story(story, user) ==
    [user_id |-> user,
     title |-> story.title,
     optimized_title |-> None,
     description |-> story.description,
     optimized_description |-> None,
     character_ids |-> story.character_ids,
     character_roles |-> None,
     content |-> None,
     status |-> "draft"]

create_story(story, user) ==
    IF Cardinality(eligible_characters(story.character_ids, user))
         # Len(story.character_ids)
    THEN Response(400, "Invalid character IDs.", characters, stories, 0)
    ELSE Returning(Response(200, "", characters,
                            stories @@ (next_story_id :> new_story(story, user)), 0),
                   {next_story_id})

\* select(Story).where(Story.id == story_id, Story.user_id == user.id)
\* ... .first()
select_story(story_id, user) ==
    IF story_id \in DOMAIN stories /\ stories[story_id].user_id = user
    THEN Some(stories[story_id])
    ELSE None

\* An exception that is no HTTPException leaves the service method: the
\* session is closed without a commit and the except clause of the route
\* answers 500
Uncaught(exc, gateway_calls) ==
    Response(500, exc, characters, stories, gateway_calls)

\* response["optimized_title"], response["optimized_description"] and
\* response["character_roles"] (lines 123-125) all evaluate
story_subscripts_succeed(response) ==
    \A k \in {"optimized_title", "optimized_description", "character_roles"} :
        CanSubscript(response, k)

\* lines 123-127: the assignments made from the gateway's mapping
merge_refined(story, response) ==
    [story EXCEPT
        !.optimized_title = Some(response.map.optimized_title),
        !.optimized_description = Some(response.map.optimized_description),
        !.character_roles = Some(response.map.character_roles),
        !.status = "generated"]

\* Faulty variant: the characters of the story are not fetched again
references_still_valid_unchecked(story, user) == TRUE

\* len(characters) != len(story.character_ids) does not hold (lines 102-114)
references_still_valid(story, user) ==
    Cardinality(eligible_characters(story.character_ids, user))
        = Len(story.character_ids)

\* refine_story_details: story is not tested before story.character_ids
\* (line 104) is read, which raises AttributeError on None; the subscripts
\* of the gateway's mapping stand after the try block
refine_story_details(story_id, user, provider) ==
    LET found == select_story(story_id, user) IN
    IF found = None
    THEN Uncaught("AttributeError", 0)
    ELSE IF ~references_still_valid(found[1], user)
    THEN Response(400, "Invalid character IDs.", characters, stories, 0)
    ELSE LET response == generate_story_details_with_openai(provider) IN
         IF response.type = "raise"
         THEN Response(500, "Error refining story details", characters, stories, 1)
         ELSE IF ~story_subscripts_succeed(response)
         THEN Uncaught("KeyError", 1)
         ELSE Returning(Response(200, "", characters,
                                 [stories EXCEPT
                                    ![story_id] = merge_refined(found[1], response)],
                                 1),
                        {story_id})

\* Request bodies of PUT /stories/{id} (StoryBasicUpdate)
StoryBasicUpdate ==
    { [title |-> Some(story.title), description |-> Some(story.description)] :
      story \in StoryInput }

\* validate_title and validate_description of StoryBasicUpdate
MinTitleLen == 5
MinDescriptionLen == 20

\* len(v) < min_len raises ValueError; len(None) raises TypeError
validate_text(v, min_len) ==
    IF v = None THEN "TypeError"
    ELSE IF Len(v[1]) < min_len THEN "ValueError"
    ELSE "ok"

\* Validation of the body, field by field: a ValueError is collected into
\* the validation error of the body, a TypeError leaves the validation at once
validate_story_update(story_update) ==
    LET title == validate_text(story_update.title, MinTitleLen)
        description == validate_text(story_update.description, MinDescriptionLen) IN
    IF title = "TypeError" \/ description = "TypeError" THEN "TypeError"
    ELSE IF title = "ValueError" \/ description = "ValueError" THEN "ValueError"
    ELSE "ok"

\* if story_update.title: / if story_update.description:
Truthy(text) == text # None /\ text[1] # ""

\* Faulty variant: the optimized fields outlive the edit
overwrite_story_keeps_optimized(story, story_update) ==
    [story EXCEPT
        !.title = IF Truthy(story_update.title) THEN story_update.title[1] ELSE @,
        !.description = IF Truthy(story_update.description)
                        THEN story_update.description[1] ELSE @]

\* lines 148-153 of update_story
overwrite_story(story, story_update) ==
    [story EXCEPT
        !.title = IF Truthy(story_update.title) THEN story_update.title[1] ELSE @,
        !.optimized_title = IF Truthy(story_update.title) THEN None ELSE @,
        !.description = IF Truthy(story_update.description)
                        THEN story_update.description[1] ELSE @,
        !.optimized_description = IF Truthy(story_update.description) THEN None ELSE @]

\* Faulty variant: a finalized story is locked, as a finalized character is
update_story_locks_finalized(story_id, story_update, user) ==
    LET found == select_story(story_id, user) IN
    IF found = None
    THEN Response(404, "Story not found.", characters, stories, 0)
    ELSE IF found[1].status = "finalized"
    THEN Response(400, "Finalized stories cannot be modified.", characters, stories, 0)
    ELSE Returning(Response(200, "", characters,
                            [stories EXCEPT
                               ![story_id] = overwrite_story(found[1], story_update)],
                            0),
                   {story_id})

update_story(story_id, story_update, user) ==
    LET found == select_story(story_id, user) IN
    IF found = None
    THEN Response(404, "Story not found.", characters, stories, 0)
    ELSE Returning(Response(200, "", characters,
                            [stories EXCEPT
                               ![story_id] = overwrite_story(found[1], story_update)],
                            0),
                   {story_id})

\* db.delete(story) (line 177) is called without await: AsyncSession.delete
\* is a coroutine function, so the call builds a coroutine that never runs
delete_is_awaited == FALSE

delete_story(story_id, user) ==
    LET found == select_story(story_id, user) IN
    IF found = None
    THEN Response(404, "Story not found.", characters, stories, 0)
    ELSE Response(200, "Story deleted successfully.", characters,
                  IF delete_is_awaited
                  THEN [s \in DOMAIN stories \ {story_id} |-> stories[s]]
                  ELSE stories,
                  0)

\* create_story_content: whatever generate_story_content returns is stored
create_story_content(story_id, user, provider) ==
    LET found == select_story(story_id, user) IN
    IF found = None
    THEN Response(404, "Story not found.", characters, stories, 0)
    ELSE LET content == generate_story_content(provider) IN
         Returning(Response(200, "", characters,
                            [stories EXCEPT
                               ![story_id].content = Some(content.map),
                               ![story_id].status = "finalized"],
                            1),
                   {story_id})

\* What the image provider does: answers with an image or the call raises
CoverProviderOutcomes == {"image", "error"}

\* generate_cover_image(generate_cover_image_prompt(story)["prompt"]): the
\* base64 data of the image, or an exception
generate_cover_image(provider) ==
    IF provider = "image"
    THEN [type |-> "str", value |-> "aGVsbG8="]
    ELSE PyRaise("Exception")

\* select(Image).where(Image.story_id == story_id)
select_images(story_id) ==
    { i \in 1..Len(images) : images[i].story_id = story_id }

\* Faulty variant: the content check of create_story_cover_image is dropped
content_missing_never(story) == FALSE

\* not story.content
content_missing(story) == Falsy(story.content)

\* create_story_cover_image: cover_image_id, assigned at line 247, is no
\* column of Story (app/db/models.py), so the commit writes the image alone
create_story_cover_image(story_id, user, provider) ==
    LET found == select_story(story_id, user) IN
    IF found = None
    THEN Response(404, "Story not found.", characters, stories, 0)
    ELSE IF content_missing(found[1])
    THEN Response(400, "Story content not found.", characters, stories, 0)
    ELSE IF select_images(story_id) # {}
    THEN Response(400, "Story already has a cover image.", characters, stories, 0)
    ELSE LET image_b64 == generate_cover_image(provider) IN
         IF image_b64.type = "raise"
         THEN Response(500, "Error generating cover image", characters, stories, 1)
         ELSE [Response(200, "", characters, stories, 1) EXCEPT
                 !.images = Append(images, [story_id |-> story_id,
                                            base64_data |-> image_b64.value])]

\* ------------------------------------------------------------------------
\* Queries (get and list of both services)
\* ------------------------------------------------------------------------
\* ... .scalars().first() of the image query: the first row stored
first_image(story_id) ==
    CHOOSE i \in select_images(story_id) : \A j \in select_images(story_id) : i <= j

\* get_cover_image: the image is looked up by story_id alone
get_cover_image(story_id, user) ==
    IF select_images(story_id) = {}
    THEN Response(404, "Cover image not found.", characters, stories, 0)
    ELSE Returning(Response(200, "", characters, stories, 0), {first_image(story_id)})

\* base64.b64decode(data) of a string over the base64 alphabet raises
\* binascii.Error unless its length is a multiple of four
b64decode_raises(data) == Len(data) % 4 # 0

\* What open(file_path, "wb") and file.write meet in the Downloads directory
DiskOutcomes == {"written", "error"}

\* download_cover_image: the same lookup, then the data is decoded and
\* written to a file
download_cover_image(story_id, user, disk) ==
    IF select_images(story_id) = {}
    THEN Response(404, "Cover image not found.", characters, stories, 0)
    ELSE LET image == images[first_image(story_id)] IN
         IF image.base64_data = ""
         THEN Response(500, "Image data is missing or corrupted.", characters, stories, 0)
         ELSE IF b64decode_raises(image.base64_data)
         THEN Response(500, "Failed to decode base64 data", characters, stories, 0)
         ELSE IF disk = "error"
         THEN Response(500, "Failed to save the image", characters, stories, 0)
         ELSE Returning(Response(200, "Cover image downloaded successfully.",
                                 characters, stories, 0),
                        {first_image(story_id)})

\* Faulty variant: the projection carries no traits
to_response_without_traits(character) ==
    [name |-> character.character_name,
     optimized_name |-> character.optimized_name,
     description |-> character.character_description,
     optimized_description |-> character.optimized_description,
     traits |-> <<>>,
     optimized_traits |-> character.optimized_traits,
     status |-> character.status]

\* Character.to_response: traits = self.character_traits or []
to_response(character) ==
    [name |-> character.character_name,
     optimized_name |-> character.optimized_name,
     description |-> character.character_description,
     optimized_description |-> character.optimized_description,
     traits |-> IF Falsy(character.character_traits)
                THEN <<>> ELSE character.character_traits[1],
     optimized_traits |-> character.optimized_traits,
     status |-> character.status]

\* get_character_by_id: the HTTPException of the not-found branch is caught
\* by except Exception of the same method and raised again as a 500
get_character_by_id(character_id, user) ==
    LET found == select_character(character_id, user) IN
    IF found = None
    THEN Response(500, "Failed to fetch character: 404: Character not found",
                  characters, stories, 0)
    ELSE Returning(Response(200, "", characters, stories, 0), {character_id})

get_story_by_id(story_id, user) ==
    LET found == select_story(story_id, user) IN
    IF found = None
    THEN Response(404, "Story not found", characters, stories, 0)
    ELSE Returning(Response(200, "", characters, stories, 0), {story_id})

\* page and size of the list routes (page: int = 1, size: int = 10)
Pages == {1, 2}
Sizes == {1, 2}

\* The rows of a result in the order the table was filled
RECURSIVE in_order(_)
in_order(ids) ==
    IF ids = {}
    THEN <<>>
    ELSE LET first == CHOOSE x \in ids : \A y \in ids : x <= y IN
         <<first>> \o in_order(ids \ {first})

\* .offset((page - 1) * size).limit(size)
offset_limit(rows, page, size) ==
    LET offset == (page - 1) * size IN
    { rows[i] : i \in { j \in 1..Len(rows) : j > offset /\ j <= offset + size } }

\* Faulty variant: the status is tested on the rows of the page
get_all_characters_filters_page(status, page, size, user) ==
    LET rows == in_order({ c \in DOMAIN characters : characters[c].user_id = user }) IN
    Returning(Response(200, "", characters, stories, 0),
              { c \in offset_limit(rows, page, size) :
                  status # None => characters[c].status = status[1] })

\* get_all_characters: WHERE user_id and, with a status given, WHERE status
get_all_characters(status, page, size, user) ==
    LET rows == in_order({ c \in DOMAIN characters :
                             /\ characters[c].user_id = user
                             /\ status # None => characters[c].status = status[1] }) IN
    Returning(Response(200, "", characters, stories, 0), offset_limit(rows, page, size))

get_all_stories(status, page, size, user) ==
    LET rows == in_order({ s \in DOMAIN stories :
                             /\ stories[s].user_id = user
                             /\ status # None => stories[s].status = status[1] }) IN
    Returning(Response(200, "", characters, stories, 0), offset_limit(rows, page, size))

\* ------------------------------------------------------------------------
\* Requests
\* ------------------------------------------------------------------------
StoryOps ==
    {"create_story", "refine_story_details", "update_story", "delete_story",
     "create_story_content", "create_story_cover_image", "get_story_by_id",
     "get_all_stories", "get_cover_image", "download_cover_image"}

\* What the route answers: every route of app/api/stories.py catches
\* Exception, HTTPException included, and raises HTTPException(500); the
\* routes of app/api/characters.py raise an HTTPException again as it is.
\* A 422 is answered before the route function runs.
route_status_code(op, r) ==
    IF op \in StoryOps /\ r.status_code \notin {200, 422}
    THEN 500
    ELSE r.status_code

\* The request served and its response; the provider's outcome is part of
\* the record when the provider was called
Request(op, user, id, provider, character_ids, r) ==
    [op |-> op, user |-> user, id |-> id,
     provider |-> IF r.gateway_calls = 0 THEN "none" ELSE provider,
     character_ids |-> character_ids, body |-> None,
     status_code |-> r.status_code, detail |-> r.detail,
     http_status_code |-> route_status_code(op, r),
     gateway_calls |-> r.gateway_calls, returned |-> r.returned]

\* The request with the body it carried
WithBody(request, body) == [request EXCEPT !.body = Some(body)]

Init ==
    /\ characters = <<>>
    /\ stories = <<>>
    /\ next_character_id = 1
    /\ next_story_id = 1
    /\ images = <<>>
    /\ generated_ok = {}
    /\ gateway = GatewayIdle
    /\ inflight = {}
    /\ legacy = [characters |-> <<>>, status_code |-> 0]
    /\ last = [op |-> "none", user |-> "u1", id |-> 0, provider |-> "none",
               character_ids |-> <<>>, body |-> None, status_code |-> 0,
               detail |-> "", http_status_code |-> 0,
               gateway_calls |-> 0, returned |-> {}]

CreateCharacter(bodies) ==
    /\ next_character_id <= MaxCharacters
    /\ \E user \in Users, data \in bodies :
         LET r == create_character(data, user) IN
         /\ characters' = r.characters
         /\ last' = WithBody(Request("create_character", user, next_character_id,
                                     "none", <<>>, r),
                             data)
    /\ next_character_id' = next_character_id + 1
    /\ UNCHANGED <<stories, next_story_id, images, generated_ok, gateway, inflight,
                   legacy>>

GenerateCharacter ==
    \E user \in Users, character_id \in CharIds, provider \in ProviderOutcomes :
      LET r == generate_character(character_id, user, provider) IN
      /\ characters' = r.characters
      /\ last' = Request("generate_character", user, character_id, provider, <<>>, r)
      /\ generated_ok' = IF r.status_code = 200
                         THEN generated_ok \cup {character_id} ELSE generated_ok
      /\ UNCHANGED <<stories, next_character_id, next_story_id, images,
                     gateway, inflight, legacy>>

UpdateCharacter(bodies) ==
    \E user \in Users, character_id \in CharIds, data \in bodies :
      LET r == update_character(character_id, data, user) IN
      /\ characters' = r.characters
      /\ last' = Request("update_character", user, character_id, "none", <<>>, r)
      /\ UNCHANGED <<stories, next_character_id, next_story_id, images, generated_ok,
                     gateway, inflight, legacy>>

FinalizeCharacter ==
    \E user \in Users, character_id \in CharIds :
      LET r == finalize_character(character_id, user) IN
      /\ characters' = r.characters
      /\ last' = Request("finalize_character", user, character_id, "none", <<>>, r)
      /\ UNCHANGED <<stories, next_character_id, next_story_id, images, generated_ok,
                     gateway, inflight, legacy>>

DeleteCharacter ==
    \E user \in Users, character_id \in CharIds :
      LET r == delete_character(character_id, user) IN
      /\ characters' = r.characters
      /\ last' = Request("delete_character", user, character_id, "none", <<>>, r)
      /\ UNCHANGED <<stories, next_character_id, next_story_id, images, generated_ok,
                     gateway, inflight, legacy>>

\* POST /stories: the body is validated into a StoryInput (422 when a
\* validator raises) before StoryService.create_story runs
CreateStory ==
    \E user \in Users, story \in StoryInput :
      IF ~validate_character_ids(story.character_ids)
      THEN /\ last' = Request("create_story", user, 0, "none", story.character_ids,
                              Response(422, "At least 2 characters are required.",
                                       characters, stories, 0))
           /\ UNCHANGED <<characters, stories, next_character_id, next_story_id,
                          images, generated_ok, gateway, inflight, legacy>>
      ELSE /\ next_story_id <= MaxStories
           /\ LET r == create_story(story, user) IN
              /\ stories' = r.stories
              /\ next_story_id' = IF r.status_code = 200
                                  THEN next_story_id + 1 ELSE next_story_id
              /\ last' = Request("create_story", user,
                                 IF r.status_code = 200 THEN next_story_id ELSE 0,
                                 "none", story.character_ids, r)
           /\ UNCHANGED <<characters, next_character_id, images, generated_ok,
                          gateway, inflight, legacy>>

RefineStoryDetails ==
    \E user \in Users, story_id \in StoryIds, provider \in StoryProviderOutcomes :
      LET r == refine_story_details(story_id, user, provider) IN
      /\ stories' = r.stories
      /\ last' = Request("refine_story_details", user, story_id, provider, <<>>, r)
      /\ UNCHANGED <<characters, next_character_id, next_story_id, images, generated_ok,
                     gateway, inflight, legacy>>

\* PUT /stories/{id}/update: the body is validated into a StoryBasicUpdate
\* before StoryService.update_story runs; a ValueError of a validator is
\* answered 422, a TypeError is no validation error and ends the request
UpdateStory(bodies) ==
    \E user \in Users, story_id \in StoryIds, story_update \in bodies :
      LET valid == validate_story_update(story_update)
          r == CASE valid = "TypeError" ->
                      Response(500, "TypeError", characters, stories, 0)
                 [] valid = "ValueError" ->
                      Response(422, "Title should be at least 10 characters.",
                               characters, stories, 0)
                 [] OTHER -> update_story(story_id, story_update, user) IN
      /\ stories' = r.stories
      /\ last' = WithBody(Request("update_story", user, story_id, "none", <<>>, r),
                          story_update)
      /\ UNCHANGED <<characters, next_character_id, next_story_id, images, generated_ok,
                     gateway, inflight, legacy>>

DeleteStory ==
    \E user \in Users, story_id \in StoryIds :
      LET r == delete_story(story_id, user) IN
      /\ stories' = r.stories
      /\ last' = Request("delete_story", user, story_id, "none", <<>>, r)
      /\ UNCHANGED <<characters, next_character_id, next_story_id, images, generated_ok,
                     gateway, inflight, legacy>>

CreateStoryContent ==
    \E user \in Users, story_id \in StoryIds, provider \in StoryProviderOutcomes :
      LET r == create_story_content(story_id, user, provider) IN
      /\ stories' = r.stories
      /\ last' = Request("create_story_content", user, story_id, provider, <<>>, r)
      /\ UNCHANGED <<characters, next_character_id, next_story_id, images, generated_ok,
                     gateway, inflight, legacy>>

CreateStoryCoverImage ==
    \E user \in Users, story_id \in StoryIds, provider \in CoverProviderOutcomes :
      LET r == create_story_cover_image(story_id, user, provider) IN
      /\ stories' = r.stories
      /\ images' = r.images
      /\ last' = Request("create_story_cover_image", user, story_id, provider, <<>>, r)
      /\ UNCHANGED <<characters, next_character_id, next_story_id, generated_ok,
                     gateway, inflight, legacy>>

GetCharacter ==
    \E user \in Users, character_id \in CharIds :
      /\ last' = Request("get_character_by_id", user, character_id, "none", <<>>,
                         get_character_by_id(character_id, user))
      /\ UNCHANGED <<characters, stories, next_character_id, next_story_id,
                     images, generated_ok, gateway, inflight, legacy>>

ListCharacters ==
    \E user \in Users, page \in Pages, size \in Sizes,
       status \in {None} \cup {Some(st) : st \in CharacterStatus} :
      /\ last' = WithBody(Request("get_all_characters", user, 0, "none", <<>>,
                                  get_all_characters(status, page, size, user)),
                          [status |-> status, page |-> page, size |-> size])
      /\ UNCHANGED <<characters, stories, next_character_id, next_story_id,
                     images, generated_ok, gateway, inflight, legacy>>

GetStory ==
    \E user \in Users, story_id \in StoryIds :
      /\ last' = Request("get_story_by_id", user, story_id, "none", <<>>,
                         get_story_by_id(story_id, user))
      /\ UNCHANGED <<characters, stories, next_character_id, next_story_id,
                     images, generated_ok, gateway, inflight, legacy>>

ListStories ==
    \E user \in Users, page \in Pages, size \in Sizes,
       status \in {None} \cup {Some(st) : st \in StoryStatus} :
      /\ last' = WithBody(Request("get_all_stories", user, 0, "none", <<>>,
                                  get_all_stories(status, page, size, user)),
                          [status |-> status, page |-> page, size |-> size])
      /\ UNCHANGED <<characters, stories, next_character_id, next_story_id,
                     images, generated_ok, gateway, inflight, legacy>>

\* ------------------------------------------------------------------------
\* Calls of the gateway functions, one provider outcome per attempt
\* ------------------------------------------------------------------------
GatewayDone(fn, attempts, result) ==
    [fn |-> fn, pc |-> "done", attempts |-> attempts, result |-> result]

CallCharacterOpenai ==
    /\ gateway.pc = "idle"
    /\ \E provider \in ProviderOutcomes :
         gateway' = GatewayDone("generate_character_with_openai", <<provider>>,
                                generate_character_with_openai(provider))
    /\ UNCHANGED <<characters, stories, next_character_id, next_story_id, images,
                   generated_ok, inflight, last, legacy>>

CallStoryDetails ==
    /\ gateway.pc = "idle"
    /\ \E provider \in StoryProviderOutcomes :
         gateway' = GatewayDone("generate_story_details_with_openai", <<provider>>,
                                generate_story_details_with_openai(provider))
    /\ UNCHANGED <<characters, stories, next_character_id, next_story_id, images,
                   generated_ok, inflight, last, legacy>>

CallStoryContent ==
    /\ gateway.pc = "idle"
    /\ \E provider \in StoryProviderOutcomes :
         gateway' = GatewayDone("generate_story_content", <<provider>>,
                                generate_story_content(provider))
    /\ UNCHANGED <<characters, stories, next_character_id, next_story_id, images,
                   generated_ok, inflight, last, legacy>>

\* generate_character_with_grok up to the first attempt: without
\* GROK_API_KEY it raises ValueError at once
CallGrok ==
    /\ gateway.pc = "idle"
    /\ \E key_set \in BOOLEAN, name \in {None, Some("Finn")} :
         gateway' = IF key_set
                    THEN [fn |-> "generate_character_with_grok", pc |-> "post",
                          attempts |-> <<>>, response |-> None,
                          result |-> PyNone, name |-> name]
                    ELSE [fn |-> "generate_character_with_grok", pc |-> "done",
                          attempts |-> <<>>, response |-> None,
                          result |-> PyRaise("ValueError"), name |-> name]
    /\ UNCHANGED <<characters, stories, next_character_id, next_story_id, images,
                   generated_ok, inflight, last, legacy>>

\* One pass of the loop of post_with_retry; when it returns, response is
\* what it returned and lines 88-108 make the result of it
GrokPost ==
    /\ gateway.pc = "post"
    /\ \E outcome \in GrokResponses \cup GrokErrors :
         LET attempts == Append(gateway.attempts, outcome) IN
         gateway' =
            IF outcome \in GrokResponses
            THEN [gateway EXCEPT !.pc = "done", !.attempts = attempts,
                                 !.response = Some(outcome),
                                 !.result = parse_grok_response(outcome)]
            ELSE IF retry_after(attempts)
            THEN [gateway EXCEPT !.pc = "sleep", !.attempts = attempts]
            ELSE [gateway EXCEPT !.pc = "done", !.attempts = attempts,
                                 !.result = PyRaise(outcome)]
    /\ UNCHANGED <<characters, stories, next_character_id, next_story_id, images,
                   generated_ok, inflight, last, legacy>>

\* await asyncio.sleep(delay); continue
GrokSleep ==
    /\ gateway.pc = "sleep"
    /\ gateway' = [gateway EXCEPT !.pc = "post"]
    /\ UNCHANGED <<characters, stories, next_character_id, next_story_id, images,
                   generated_ok, inflight, last, legacy>>

\* The caller has the result or the exception
GatewayReturn ==
    /\ gateway.pc = "done"
    /\ gateway' = GatewayIdle
    /\ UNCHANGED <<characters, stories, next_character_id, next_story_id, images,
                   generated_ok, inflight, last, legacy>>

NextGateway ==
    \/ CallCharacterOpenai
    \/ CallStoryDetails
    \/ CallStoryContent
    \/ CallGrok
    \/ GrokPost
    \/ GrokSleep
    \/ GatewayReturn

SpecGateway == Init /\ [][NextGateway]_vars

\* ------------------------------------------------------------------------
\* Concurrent requests on one character: each request runs up to its first
\* await after the select (the gateway call of generate, db.commit() of
\* update and finalize) in one step and finishes in a second one
\* ------------------------------------------------------------------------
\* The id the concurrent requests name
ConcurrentIds == {1}

ConcurrentOps == {"generate_character", "update_character", "finalize_character"}

\* the check each method makes between its select and its first assignment
rejection(op, character) ==
    CASE op = "generate_character" /\ ~can_generate(character) ->
            Some("Character must be in draft or generated status.")
      [] op = "update_character" /\ is_locked(character) ->
            Some("Finalized characters cannot be modified.")
      [] op = "finalize_character" /\ ~can_finalize(character) ->
            Some("Only generated characters can be finalized.")
      [] OTHER -> None

\* await db.commit() of a session that loaded the row as snapshot and
\* assigned modified to it: the UPDATE sets the columns whose value differs
\* from the loaded one, on the row as it is now
commit(current, snapshot, modified) ==
    [column \in DOMAIN current |->
        IF modified[column] # snapshot[column]
        THEN modified[column] ELSE current[column]]

FreeSlots == (1..MaxInflight) \ { request.slot : request \in inflight }

\* select, the 404 and 400 checks; a request that passes them is under way
BeginRequest ==
    /\ FreeSlots # {}
    /\ \E op \in ConcurrentOps, user \in Users, character_id \in ConcurrentIds,
          data \in CharacterInput :
         LET found == select_character(character_id, user)
             body == IF op = "update_character" THEN Some(data) ELSE None IN
         IF found = None \/ rejection(op, found[1]) # None
         THEN /\ last' = Request(op, user, character_id, "none", <<>>,
                                 IF found = None
                                 THEN Response(404, "Character not found",
                                               characters, stories, 0)
                                 ELSE Response(400, rejection(op, found[1])[1],
                                               characters, stories, 0))
              /\ UNCHANGED inflight
         ELSE /\ inflight' = inflight \cup
                    {[slot |-> CHOOSE n \in FreeSlots : \A m \in FreeSlots : n <= m,
                      op |-> op, user |-> user, id |-> character_id,
                      body |-> body, snapshot |-> found[1]]}
              /\ UNCHANGED last
    /\ UNCHANGED <<characters, stories, next_character_id, next_story_id, images,
                   generated_ok, gateway, legacy>>

\* generate_character from the gateway call on (lines 65-77)
FinishGenerate ==
    \E request \in inflight, provider \in ProviderOutcomes :
      /\ request.op = "generate_character"
      /\ LET generated_data == generate_character_with_openai(provider)
             r == IF ~subscripts_succeed(generated_data)
                  THEN Response(500, "Failed to generate character",
                                characters, stories, 1)
                  ELSE Returning(
                         Response(200, "",
                                  [characters EXCEPT ![request.id] =
                                     commit(@, request.snapshot,
                                            merge_generated(request.snapshot,
                                                            generated_data))],
                                  stories, 1),
                         {request.id}) IN
         /\ characters' = r.characters
         /\ last' = Request(request.op, request.user, request.id, provider, <<>>, r)
         /\ generated_ok' = IF r.status_code = 200
                            THEN generated_ok \cup {request.id} ELSE generated_ok
      /\ inflight' = inflight \ {request}
      /\ UNCHANGED <<stories, next_character_id, next_story_id, images, gateway,
                     legacy>>

\* update_character from its assignments on (lines 106-118)
FinishUpdate ==
    \E request \in inflight :
      /\ request.op = "update_character"
      /\ LET r == Returning(
                    Response(200, "",
                             [characters EXCEPT ![request.id] =
                                commit(@, request.snapshot,
                                       overwrite(request.snapshot, request.body[1]))],
                             stories, 0),
                    {request.id}) IN
         /\ characters' = r.characters
         /\ last' = Request(request.op, request.user, request.id, "none", <<>>, r)
      /\ inflight' = inflight \ {request}
      /\ UNCHANGED <<stories, next_character_id, next_story_id, images,
                     generated_ok, gateway, legacy>>

\* finalize_character from its assignments on (lines 146-150)
FinishFinalize ==
    \E request \in inflight :
      /\ request.op = "finalize_character"
      /\ LET r == Returning(
                    Response(200, "",
                             [characters EXCEPT ![request.id] =
                                commit(@, request.snapshot,
                                       [request.snapshot EXCEPT !.status = "finalized"])],
                             stories, 0),
                    {request.id}) IN
         /\ characters' = r.characters
         /\ last' = Request(request.op, request.user, request.id, "none", <<>>, r)
      /\ inflight' = inflight \ {request}
      /\ UNCHANGED <<stories, next_character_id, next_story_id, images,
                     generated_ok, gateway, legacy>>

NextConcurrent ==
    \/ next_character_id \in ConcurrentIds /\ CreateCharacter(CharacterInput)
    \/ BeginRequest
    \/ FinishGenerate
    \/ FinishUpdate
    \/ FinishFinalize

SpecConcurrent == Init /\ [][NextConcurrent]_vars

\* ------------------------------------------------------------------------
\* The cover image queries as functions of the tables they read
\* ------------------------------------------------------------------------
\* Rows of table images: base64 data that decodes, that is empty, and that
\* has no valid padding
StoredImages == [story_id : StoryIds, base64_data : {"aGVsbG8=", "", "abc"}]

\* Tables of stories as create_story leaves them, and tables of images of
\* these stories; nothing keeps a story from having several images
InitCoverImage ==
    /\ characters = <<>>
    /\ next_character_id = 1
    /\ \E n \in 0..MaxStories :
         /\ stories \in [1..n -> { new_story(story, user) :
                                     story \in { body \in StoryInput :
                                                   validate_character_ids(body.character_ids) },
                                     user \in Users }]
         /\ next_story_id = n + 1
         /\ images \in UNION { [1..k -> { image \in StoredImages : image.story_id <= n }] :
                                 k \in 0..(MaxStories + 1) }
    /\ generated_ok = {}
    /\ gateway = GatewayIdle
    /\ inflight = {}
    /\ legacy = [characters |-> <<>>, status_code |-> 0]
    /\ last = [op |-> "none", user |-> "u1", id |-> 0, provider |-> "none",
               character_ids |-> <<>>, body |-> None, status_code |-> 0,
               detail |-> "", http_status_code |-> 0,
               gateway_calls |-> 0, returned |-> {}]

GetCoverImage ==
    \E user \in Users, story_id \in StoryIds :
      /\ last' = Request("get_cover_image", user, story_id, "none", <<>>,
                         get_cover_image(story_id, user))
      /\ UNCHANGED <<characters, stories, next_character_id, next_story_id,
                     images, generated_ok, gateway, inflight, legacy>>

DownloadCoverImage ==
    \E user \in Users, story_id \in StoryIds, disk \in DiskOutcomes :
      /\ last' = Request("download_cover_image", user, story_id, "none", <<>>,
                         download_cover_image(story_id, user, disk))
      /\ UNCHANGED <<characters, stories, next_character_id, next_story_id,
                     images, generated_ok, gateway, inflight, legacy>>

NextCoverImage ==
    \/ GetCoverImage
    \/ DownloadCoverImage

SpecCoverImage == InitCoverImage /\ [][NextCoverImage]_vars

\* ------------------------------------------------------------------------
\* Legacy router (app/routes/characters.py, the one app/main.py mounts),
\* over its own table legacy.characters
\* ------------------------------------------------------------------------
\* CharacterInput of app/schemas/characters.py: name of 4 characters or
\* more when given, description of 10 or more, traits a list or null
MinNameLen == 4
MinCharacterDescriptionLen == 10

validate_character_input(data) ==
    /\ data.name # None => Len(data.name[1]) >= MinNameLen
    /\ Len(data.description) >= MinCharacterDescriptionLen

\* CharacterInput of app/routes/characters.py: name and description have an
\* upper bound only, traits is a dict or null, so a list is refused
legacy_validate_character_input(data) == data.traits = None

\* Bodies of POST and PUT: those of RoundTripInput and one with a short
\* description; none has the key story_context
LegacyInput ==
    RoundTripInput \cup {[name |-> Some("Finn"), description |-> "Fox", traits |-> None]}

LegacyResponse(status_code, chars) == [status_code |-> status_code, characters |-> chars]

legacy_select_character(character_id, user) ==
    IF /\ character_id \in DOMAIN legacy.characters
       /\ legacy.characters[character_id].user_id = user
    THEN Some(legacy.characters[character_id])
    ELSE None

\* create_character (lines 83-124): traits and story_context are stored as
\* given, story_context defaulting to None
legacy_create_character(character_id, data, user) ==
    LegacyResponse(200,
        legacy.characters @@
        (character_id :> [user_id |-> user,
                          character_name |-> data.name,
                          optimized_name |-> None,
                          character_description |-> data.description,
                          optimized_description |-> None,
                          character_traits |-> data.traits,
                          optimized_traits |-> None,
                          character_story_context |-> None,
                          optimized_story_context |-> None,
                          status |-> "draft"]))

\* generated_data, chat_id = await generate_character_with_openai(character):
\* an exception of the call goes on, None cannot be unpacked (TypeError), a
\* mapping or a tuple unpacks only when it has two items (ValueError)
legacy_unpack(result) ==
    CASE result.type = "raise" -> result
      [] result.type = "NoneType" -> PyRaise("TypeError")
      [] result.type = "tuple" ->
            IF Len(result.items) = 2 THEN result ELSE PyRaise("ValueError")
      [] result.type = "dict" ->
            IF Cardinality(DOMAIN result.map) = 2
            THEN result ELSE PyRaise("ValueError")

\* generate_character (lines 127-183): what unpacks is a pair whose first
\* item is a str, and generated_data["optimized_name"] on a str raises
\* TypeError; ValueError is answered 500 by the handler, every other
\* exception by the server
legacy_generate_character(character_id, user, provider) ==
    LET found == legacy_select_character(character_id, user) IN
    IF found = None
    THEN LegacyResponse(404, legacy.characters)
    ELSE IF ~can_generate(found[1])
    THEN LegacyResponse(400, legacy.characters)
    ELSE LET unpacked == legacy_unpack(generate_character_with_openai(provider)) IN
         IF unpacked.type = "raise"
         THEN LegacyResponse(500, legacy.characters)
         ELSE LegacyResponse(500, legacy.characters)

\* update_character (lines 186-239): all four optimized fields are cleared
legacy_update_character(character_id, data, user) ==
    LET found == legacy_select_character(character_id, user) IN
    IF found = None
    THEN LegacyResponse(404, legacy.characters)
    ELSE IF is_locked(found[1])
    THEN LegacyResponse(400, legacy.characters)
    ELSE LegacyResponse(200,
            [legacy.characters EXCEPT ![character_id] =
                [@ EXCEPT !.character_name = data.name,
                          !.optimized_name = None,
                          !.character_description = data.description,
                          !.optimized_description = None,
                          !.character_traits = data.traits,
                          !.optimized_traits = None,
                          !.character_story_context = None,
                          !.optimized_story_context = None,
                          !.status = "generated"]])

\* finalize_character (lines 242-281)
legacy_finalize_character(character_id, user) ==
    LET found == legacy_select_character(character_id, user) IN
    IF found = None
    THEN LegacyResponse(404, legacy.characters)
    ELSE IF ~can_finalize(found[1])
    THEN LegacyResponse(400, legacy.characters)
    ELSE LegacyResponse(200,
            [legacy.characters EXCEPT ![character_id].status = "finalized"])

\* A body that does not pass the schema of the route is answered 422
Unprocessable == Response(422, "validation error", characters, stories, 0)

\* The same call made on both routers; a character either of them creates
\* has the same id in both tables
BothCreateCharacter ==
    /\ next_character_id <= MaxCharacters
    /\ \E user \in Users, data \in LegacyInput :
         LET r == IF validate_character_input(data)
                  THEN create_character(data, user) ELSE Unprocessable
             l == IF legacy_validate_character_input(data)
                  THEN legacy_create_character(next_character_id, data, user)
                  ELSE LegacyResponse(422, legacy.characters) IN
         /\ characters' = r.characters
         /\ legacy' = l
         /\ last' = WithBody(Request("create_character", user, next_character_id,
                                     "none", <<>>, r),
                             data)
    /\ next_character_id' = next_character_id + 1
    /\ UNCHANGED <<stories, next_story_id, images, generated_ok, gateway, inflight>>

BothGenerateCharacter ==
    \E user \in Users, character_id \in CharIds, provider \in ProviderOutcomes :
      LET r == generate_character(character_id, user, provider) IN
      /\ characters' = r.characters
      /\ legacy' = legacy_generate_character(character_id, user, provider)
      /\ last' = Request("generate_character", user, character_id, provider, <<>>, r)
      /\ generated_ok' = IF r.status_code = 200
                         THEN generated_ok \cup {character_id} ELSE generated_ok
      /\ UNCHANGED <<stories, next_character_id, next_story_id, images,
                     gateway, inflight>>

BothUpdateCharacter ==
    \E user \in Users, character_id \in CharIds, data \in LegacyInput :
      LET r == IF validate_character_input(data)
               THEN update_character(character_id, data, user) ELSE Unprocessable
          l == IF legacy_validate_character_input(data)
               THEN legacy_update_character(character_id, data, user)
               ELSE LegacyResponse(422, legacy.characters) IN
      /\ characters' = r.characters
      /\ legacy' = l
      /\ last' = WithBody(Request("update_character", user, character_id, "none",
                                  <<>>, r),
                          data)
      /\ UNCHANGED <<stories, next_character_id, next_story_id, images, generated_ok,
                     gateway, inflight>>

BothFinalizeCharacter ==
    \E user \in Users, character_id \in CharIds :
      LET r == finalize_character(character_id, user) IN
      /\ characters' = r.characters
      /\ legacy' = legacy_finalize_character(character_id, user)
      /\ last' = Request("finalize_character", user, character_id, "none", <<>>, r)
      /\ UNCHANGED <<stories, next_character_id, next_story_id, images, generated_ok,
                     gateway, inflight>>

NextLegacy ==
    \/ BothCreateCharacter
    \/ BothGenerateCharacter
    \/ BothUpdateCharacter
    \/ BothFinalizeCharacter

SpecLegacy == Init /\ [][NextLegacy]_vars

\* The list queries over the characters of one cast and their stories, in
\* every status
NextList ==
    \/ next_character_id <= MinCharacterIds /\ CreateCharacter(StoryCast)
    \/ UpdateCharacter(StoryCast)
    \/ FinalizeCharacter
    \/ CreateStory
    \/ RefineStoryDetails
    \/ ListCharacters
    \/ ListStories

SpecList == Init /\ [][NextList]_vars

\* The character lifecycle: every request body, no story is ever created
NextCharacter ==
    \/ CreateCharacter(CharacterInput)
    \/ GenerateCharacter
    \/ UpdateCharacter(CharacterInput)
    \/ FinalizeCharacter
    \/ DeleteCharacter

SpecCharacter == Init /\ [][NextCharacter]_vars

Next ==
    \/ CreateCharacter(StoryCast)
    \/ GenerateCharacter
    \/ UpdateCharacter(StoryCast)
    \/ FinalizeCharacter
    \/ DeleteCharacter
    \/ CreateStory

Spec == Init /\ [][Next]_vars

\* The story lifecycle, with the character operations that decide whether a
\* story's references are valid, over a cast of as many characters as the
\* shortest list validate_character_ids accepts
NextStory ==
    \/ next_character_id <= MinCharacterIds /\ CreateCharacter(StoryCast)
    \/ GenerateCharacter
    \/ UpdateCharacter(StoryCast)
    \/ DeleteCharacter
    \/ CreateStory
    \/ RefineStoryDetails
    \/ UpdateStory(StoryBasicUpdate)
    \/ CreateStoryContent
    \/ CreateStoryCoverImage

SpecStory == Init /\ [][NextStory]_vars

\* Characters created from every body and read back
NextRoundTrip ==
    \/ CreateCharacter(RoundTripInput)
    \/ UpdateCharacter(StoryCast)
    \/ DeleteCharacter
    \/ GetCharacter

SpecRoundTrip == Init /\ [][NextRoundTrip]_vars

\* The story lifecycle with characters of every status
NextLifecycle ==
    \/ NextStory
    \/ FinalizeCharacter

SpecLifecycle == Init /\ [][NextLifecycle]_vars

\* Edits of a story, refined or not, with every body of PartialStoryUpdate
NextStoryUpdate ==
    \/ next_character_id <= MinCharacterIds /\ CreateCharacter(StoryCast)
    \/ UpdateCharacter(StoryCast)
    \/ CreateStory
    \/ RefineStoryDetails
    \/ UpdateStory(PartialStoryUpdate)

SpecStoryUpdate == Init /\ [][NextStoryUpdate]_vars

\* Every operation of both services
NextAll ==
    \/ NextStory
    \/ FinalizeCharacter
    \/ DeleteStory
    \/ GetCharacter
    \/ ListCharacters
    \/ GetStory
    \/ ListStories

SpecAll == Init /\ [][NextAll]_vars

\* ------------------------------------------------------------------------
\* Properties
\* ------------------------------------------------------------------------
AllNull(character) ==
    /\ character.optimized_name = None
    /\ character.optimized_description = None
    /\ character.optimized_traits = None
    /\ character.optimized_story_context = None

AllSet(character) ==
    /\ character.optimized_name # None
    /\ character.optimized_description # None
    /\ character.optimized_traits # None
    /\ character.optimized_story_context # None

\* The character the request names exists and belongs to the caller
Owned(id, user) == id \in DOMAIN characters /\ characters[id].user_id = user

FinalizedImmutable ==
    [][\A c \in DOMAIN characters :
         characters[c].status = "finalized" =>
           IF c \in DOMAIN characters'
           THEN characters'[c] = characters[c]
           ELSE last'.op = "delete_character" /\ last'.id = c]_vars

\* The owner's update of a finalized character was turned away
FinalizedImmutableWitness ==
    /\ last.op \in {"generate_character", "update_character", "finalize_character"}
    /\ last.status_code = 400
    /\ Owned(last.id, last.user)
    /\ characters[last.id].status = "finalized"

\* C3: finalize of an existing owned Character succeeds iff its status is
\* generated; from draft or finalized it fails with 400 "Only generated
\* characters can be finalized." and the tables are unchanged.
FinalizeIffGenerated ==
    [][(last'.op = "finalize_character" /\ Owned(last'.id, last'.user)) =>
         /\ (last'.status_code = 200) <=> (characters[last'.id].status = "generated")
         /\ last'.status_code = 200 =>
              /\ last'.id \in DOMAIN characters'
              /\ characters'[last'.id].status = "finalized"
         /\ characters[last'.id].status # "generated" =>
              /\ last'.status_code = 400
              /\ last'.detail = "Only generated characters can be finalized."
              /\ characters' = characters
              /\ stories' = stories]_vars

\* A draft character whose finalize was turned away
FinalizeIffGeneratedWitness ==
    /\ last.op = "finalize_character"
    /\ last.status_code = 400
    /\ Owned(last.id, last.user)
    /\ characters[last.id].status = "draft"

\* C4: update of a finalized Character fails with 400 "Finalized characters
\* cannot be modified." and writes nothing, for every request body.
UpdateFinalizedLocked ==
    [][(/\ last'.op = "update_character"
        /\ Owned(last'.id, last'.user)
        /\ characters[last'.id].status = "finalized") =>
         /\ last'.status_code = 400
         /\ last'.detail = "Finalized characters cannot be modified."
         /\ characters' = characters
         /\ stories' = stories]_vars

UpdateFinalizedLockedWitness ==
    /\ last.op = "update_character"
    /\ last.status_code = 400
    /\ last.detail = "Finalized characters cannot be modified."
    /\ Owned(last.id, last.user)
    /\ characters[last.id].status = "finalized"

\* C5: a successful update leaves the status where it was (draft stays
\* draft, generated stays generated).
UpdateKeepsStatus ==
    [][(last'.op = "update_character" /\ last'.status_code = 200) =>
         characters'[last'.id].status = characters[last'.id].status]_vars

GenerateAcceptedStatuses ==
    [][(last'.op = "generate_character" /\ Owned(last'.id, last'.user)) =>
         /\ (last'.gateway_calls = 1) <=>
              (characters[last'.id].status \in {"draft", "generated"})
         /\ characters[last'.id].status = "finalized" =>
              /\ last'.status_code = 400
              /\ last'.detail = "Character must be in draft or generated status."
              /\ last'.gateway_calls = 0
              /\ characters' = characters]_vars

GenerateAcceptedStatusesWitness ==
    /\ last.op = "generate_character"
    /\ last.status_code = 400
    /\ last.gateway_calls = 0
    /\ Owned(last.id, last.user)
    /\ characters[last.id].status = "finalized"

\* C8: when the provider answers generate with a complete result, the request
\* succeeds: the four optimized fields are set, the status is generated, the
\* row is stored.
GenerateSucceedsOnGatewaySuccess ==
    [][(/\ last'.op = "generate_character"
        /\ Owned(last'.id, last'.user)
        /\ characters[last'.id].status \in {"draft", "generated"}
        /\ last'.provider = "parsed") =>
         /\ last'.status_code = 200
         /\ AllSet(characters'[last'.id])
         /\ characters'[last'.id].status = "generated"]_vars

\* C9: when the gateway call of generate fails, the request fails with 500
\* "Failed to generate character" and the tables are unchanged.
GenerateFailureLeavesUnchanged ==
    [][(/\ last'.op = "generate_character"
        /\ last'.gateway_calls = 1
        /\ last'.provider \in {"no_choices", "error"}) =>
         /\ last'.status_code = 500
         /\ last'.detail = "Failed to generate character"
         /\ characters' = characters
         /\ stories' = stories]_vars

GenerateFailureLeavesUnchangedWitness ==
    /\ last.op = "generate_character"
    /\ last.gateway_calls = 1
    /\ last.provider = "error"
    /\ last.status_code = 500
    /\ Owned(last.id, last.user)
    /\ characters[last.id].status = "draft"

\* Every requested id is distinct and names a character of the caller whose
\* status is generated or finalized
AllReferencesValid(character_ids, user) ==
    /\ \A i, j \in 1..Len(character_ids) : i # j => character_ids[i] # character_ids[j]
    /\ \A i \in 1..Len(character_ids) :
         /\ Owned(character_ids[i], user)
         /\ characters[character_ids[i]].status \in {"generated", "finalized"}

\* C10: create_story succeeds only if every id is distinct and resolves to a
\* Character of the caller in status generated or finalized; otherwise it
\* fails with 400 "Invalid character IDs." and no Story is added.
CreateStoryValidatesReferences ==
    [][(last'.op = "create_story") =>
         /\ last'.status_code = 200 =>
              /\ AllReferencesValid(last'.character_ids, last'.user)
              /\ last'.id \in DOMAIN stories' \ DOMAIN stories
         /\ (/\ validate_character_ids(last'.character_ids)
             /\ ~AllReferencesValid(last'.character_ids, last'.user)) =>
              /\ last'.status_code = 400
              /\ last'.detail = "Invalid character IDs."
              /\ stories' = stories
              /\ characters' = characters]_vars

\* A request naming the same eligible character twice was turned away
CreateStoryValidatesReferencesWitness ==
    /\ last.op = "create_story"
    /\ last.status_code = 400
    /\ Len(last.character_ids) = 2
    /\ last.character_ids[1] = last.character_ids[2]
    /\ Owned(last.character_ids[1], last.user)
    /\ characters[last.character_ids[1]].status \in {"generated", "finalized"}


\* ------------------------------------------------------------------------
\* Properties of the story lifecycle
\* ------------------------------------------------------------------------
\* C11: a create or refine of a story that succeeds references only
\* characters that a generate call has written at least once.
StoryMaterialWasGenerated ==
    [][(/\ last'.op \in {"create_story", "refine_story_details"}
        /\ last'.status_code = 200)
       => \A i \in 1..Len(stories'[last'.id].character_ids) :
             stories'[last'.id].character_ids[i] \in generated_ok']_vars

\* C12: refine of a story that does not exist or belongs to another user
\* answers 404, calls no gateway and changes nothing.
RefineUnknownStoryNotFound ==
    [][(/\ last'.op = "refine_story_details"
        /\ select_story(last'.id, last'.user) = None)
       => /\ last'.status_code = 404
          /\ last'.gateway_calls = 0
          /\ stories' = stories
          /\ characters' = characters]_vars

\* C13: refine of a story one of whose characters is gone or is neither
\* generated nor finalized answers 400 "Invalid character IDs.", calls no
\* gateway and leaves the story as it was.
RefineRevalidatesReferences ==
    [][(/\ last'.op = "refine_story_details"
        /\ select_story(last'.id, last'.user) # None
        /\ \E i \in 1..Len(stories[last'.id].character_ids) :
              LET c == stories[last'.id].character_ids[i] IN
              \/ c \notin DOMAIN characters
              \/ characters[c].status \notin {"generated", "finalized"})
       => /\ last'.status_code = 400
          /\ last'.detail = "Invalid character IDs."
          /\ last'.gateway_calls = 0
          /\ stories' = stories]_vars

RefineRevalidatesReferencesWitness ==
    /\ last.op = "refine_story_details"
    /\ last.status_code = 400
    /\ last.id \in DOMAIN stories
    /\ stories[last.id].user_id = last.user
    /\ \E i \in 1..Len(stories[last.id].character_ids) :
          stories[last.id].character_ids[i] \notin DOMAIN characters

\* C14: a refine that reached the gateway either got a result with the
\* three fields, and then the three are written from it and status becomes
\* generated, or it answers 500 and the stored story is as it was.
RefineAllOrNothing ==
    [][(last'.op = "refine_story_details" /\ last'.gateway_calls = 1)
       => IF last'.provider = "complete"
          THEN /\ last'.status_code = 200
               /\ stories' =
                    [stories EXCEPT
                       ![last'.id].optimized_title = Some(StoryDetails.optimized_title),
                       ![last'.id].optimized_description =
                           Some(StoryDetails.optimized_description),
                       ![last'.id].character_roles = Some(StoryDetails.character_roles),
                       ![last'.id].status = "generated"]
          ELSE /\ last'.status_code = 500
               /\ stories' = stories]_vars

RefineAllOrNothingWitness ==
    /\ last.op = "refine_story_details"
    /\ last.provider = "partial"
    /\ last.status_code = 500
    /\ last.id \in DOMAIN stories
    /\ stories[last.id].character_roles # None

\* C15: createContent on a story without character roles answers 400, calls
\* no gateway and leaves content and status as they were.
ContentRequiresRoles ==
    [][(/\ last'.op = "create_story_content"
        /\ select_story(last'.id, last'.user) # None
        /\ Falsy(stories[last'.id].character_roles))
       => /\ last'.status_code = 400
          /\ last'.gateway_calls = 0
          /\ stories' = stories]_vars

\* C16: createContent whose gateway call fails answers 500 and leaves the
\* story as it was.
ContentGatewayFailureLeavesUnchanged ==
    [][(/\ last'.op = "create_story_content"
        /\ last'.gateway_calls = 1
        /\ last'.provider \in {"no_choices", "error"})
       => /\ last'.status_code = 500
          /\ stories' = stories]_vars

CharacterOps ==
    {"create_character", "generate_character", "update_character",
     "finalize_character", "delete_character", "get_character_by_id",
     "get_all_characters"}

\* C19: a request of one user leaves every character and story of another
\* user as it was, returns only entities of the requesting user, and a
\* story it creates or refines is cast with the requesting user's
\* characters only.
OwnerIsolation ==
    [][/\ \A c \in DOMAIN characters :
            characters[c].user_id # last'.user
            => c \in DOMAIN characters' /\ characters'[c] = characters[c]
       /\ \A s \in DOMAIN stories :
            stories[s].user_id # last'.user
            => s \in DOMAIN stories' /\ stories'[s] = stories[s]
       /\ \A i \in 1..Len(images') :
            i > Len(images) => stories[images'[i].story_id].user_id = last'.user
       /\ \A id \in last'.returned :
            IF last'.op \in CharacterOps
            THEN characters'[id].user_id = last'.user
            ELSE stories'[id].user_id = last'.user
       /\ (/\ last'.op \in {"create_story", "refine_story_details"}
           /\ last'.status_code = 200)
          => \A i \in 1..Len(stories'[last'.id].character_ids) :
                characters[stories'[last'.id].character_ids[i]].user_id = last'.user]_vars

OwnerIsolationWitness ==
    /\ last.op \in {"update_character", "delete_character", "update_story",
                    "create_story_content"}
    /\ last.status_code = 404
    /\ IF last.op \in CharacterOps
       THEN last.id \in DOMAIN characters /\ characters[last.id].user_id # last.user
       ELSE last.id \in DOMAIN stories /\ stories[last.id].user_id # last.user

\* C20: a delete that answers 200 removes the entity from its table; a get
\* of an id that is in no row of the requesting user fails, and a list
\* returns only rows that are in the table.
DeleteIsHard ==
    [][/\ (last'.op = "delete_character" /\ last'.status_code = 200)
          => last'.id \notin DOMAIN characters'
       /\ (last'.op = "delete_story" /\ last'.status_code = 200)
          => last'.id \notin DOMAIN stories'
       /\ (last'.op = "get_character_by_id" /\ last'.id \notin DOMAIN characters)
          => last'.status_code # 200
       /\ (last'.op = "get_story_by_id" /\ last'.id \notin DOMAIN stories)
          => last'.status_code # 200
       /\ last'.op = "get_all_characters" => last'.returned \subseteq DOMAIN characters
       /\ last'.op = "get_all_stories" => last'.returned \subseteq DOMAIN stories]_vars

UpdateStoryFrame ==
    [][last'.op = "update_story"
       => /\ (/\ select_story(last'.id, last'.user) # None
              /\ validate_story_update(last'.body[1]) = "ok")
             => last'.status_code = 200
          /\ DOMAIN stories' = DOMAIN stories
          /\ \A s \in DOMAIN stories :
               /\ stories'[s].status = stories[s].status
               /\ stories'[s].character_ids = stories[s].character_ids
               /\ stories'[s].character_roles = stories[s].character_roles
               /\ stories'[s].content = stories[s].content
          /\ images' = images]_vars

\* An accepted update of a finalized story
UpdateStoryFrameWitness ==
    /\ last.op = "update_story"
    /\ last.status_code = 200
    /\ stories[last.id].status = "finalized"

\* C22: a story with status generated has character roles, and a story
\* with status finalized has content that a content call produced.
StoryStatusBacked ==
    \A s \in DOMAIN stories :
        /\ stories[s].status = "generated" => ~Falsy(stories[s].character_roles)
        /\ stories[s].status = "finalized" => ~Falsy(stories[s].content)

\* C23: the status of a story changes only from draft to generated, by
\* refine, or to finalized, by createContent, and never away from finalized.
StoryStatusForward ==
    [][\A s \in DOMAIN stories \cap DOMAIN stories' :
         stories'[s].status # stories[s].status
         => /\ stories[s].status # "finalized"
            /\ stories'[s].status = "generated"
               => last'.op = "refine_story_details" /\ stories[s].status = "draft"
            /\ stories'[s].status = "finalized" => last'.op = "create_story_content"
            /\ stories'[s].status \in {"generated", "finalized"}]_vars

\* C24: a request answered with a validation failure (400, 404 or 409)
\* made no call to a provider.
ValidationBeforeGateway ==
    last.status_code \in {400, 404, 409} => last.gateway_calls = 0

ValidationBeforeGatewayWitness ==
    /\ last.op = "generate_character"
    /\ last.status_code = 400
    /\ last.id \in DOMAIN characters
    /\ characters[last.id].status = "finalized"

\* C26: a validation failure of the service is answered by the route with
\* the same status code, and a get of a character that the requesting user
\* does not have is answered 404.
ErrorKindsReachCaller ==
    /\ last.status_code \in {400, 404, 409}
       => last.http_status_code = last.status_code
    /\ (last.op = "get_character_by_id" /\ select_character(last.id, last.user) = None)
       => last.http_status_code = 404

\* C30: a create of a story with fewer than two character ids is answered
\* 422 and leaves both tables as they were.
CreateStoryNeedsTwoCharacters ==
    [][(last'.op = "create_story" /\ Len(last'.character_ids) < MinCharacterIds)
       => /\ last'.status_code = 422
          /\ stories' = stories
          /\ characters' = characters
          /\ next_story_id' = next_story_id]_vars

CreateStoryNeedsTwoCharactersWitness ==
    /\ last.op = "create_story"
    /\ last.status_code = 422
    /\ Len(last.character_ids) = 1
    /\ eligible_characters(last.character_ids, last.user) # {}

\* A get that follows the create of the same character by the same user
GetAfterCreate ==
    /\ last.op = "create_character"
    /\ last.status_code = 200
    /\ last'.op = "get_character_by_id"
    /\ last'.id = last.id
    /\ last'.user = last.user

\* C27: create followed by get of the returned id by the same user answers
\* a projection whose name, description and traits equal the body, whose
\* status is draft and whose optimized fields are null.
CreateGetRoundTrip ==
    [][GetAfterCreate
       => /\ last'.status_code = 200
          /\ last'.returned = {last.id}
          /\ LET projection == to_response(characters'[last.id])
                 data == last.body[1] IN
             /\ projection.name = data.name
             /\ projection.description = data.description
             /\ Some(projection.traits) = data.traits
             /\ projection.status = "draft"
             /\ projection.optimized_name = None
             /\ projection.optimized_description = None
             /\ projection.optimized_traits = None]_vars

\* C27, amended: as above, where traits that the body leaves null read
\* back as the empty list.
CreateGetRoundTripTraitsDefault ==
    [][GetAfterCreate
       => /\ last'.status_code = 200
          /\ last'.returned = {last.id}
          /\ LET projection == to_response(characters'[last.id])
                 data == last.body[1] IN
             /\ projection.name = data.name
             /\ projection.description = data.description
             /\ projection.traits = IF data.traits = None THEN <<>> ELSE data.traits[1]
             /\ projection.status = "draft"
             /\ projection.optimized_name = None
             /\ projection.optimized_description = None
             /\ projection.optimized_traits = None]_vars

CreateGetRoundTripWitness ==
    /\ last.op = "get_character_by_id"
    /\ last.status_code = 200
    /\ last.returned = {last.id}
    /\ characters[last.id].status = "draft"
    /\ characters[last.id].character_traits = None

\* ------------------------------------------------------------------------
\* Properties of the gateway functions
\* ------------------------------------------------------------------------
\* The provider outcomes that carry a complete result
CompleteOutcomes == {"parsed", "complete", "valid", "valid_fenced"}

\* C28: a call of a gateway function whose last provider outcome carries no
\* complete result ends with an exception, not with a returned value.
GatewayFailureIsRaised ==
    (/\ gateway.pc = "done"
     /\ gateway.attempts # <<>>
     /\ gateway.attempts[Len(gateway.attempts)] \notin CompleteOutcomes)
    => gateway.result.type = "raise"

\* C29: post_with_retry makes a further attempt only after an attempt that
\* did not get through; a response with an error status ends the call.
RetryOnlyTransient ==
    \A i \in 1..(Len(gateway.attempts) - 1) :
        gateway.attempts[i] # "HTTPStatusError"

\* C32: post_with_retry makes at most retries attempts; it returns the
\* response of the first attempt that succeeds, every attempt before it
\* having failed, and after retries failed attempts it raises the error of
\* the last one.
RetryIsBounded ==
    (gateway.fn = "generate_character_with_grok")
    => LET attempts == gateway.attempts
           n == Len(attempts) IN
       /\ n <= retries
       /\ \A i \in 1..(n - 1) : attempts[i] \in GrokErrors
       /\ gateway.pc \in {"post", "sleep"} => n < retries /\ gateway.response = None
       /\ (gateway.pc = "done" /\ n > 0)
          => IF attempts[n] \in GrokResponses
             THEN gateway.response = Some(attempts[n])
             ELSE /\ n = retries
                  /\ gateway.response = None
                  /\ gateway.result = PyRaise(attempts[n])

\* Every attempt failed, the last one otherwise than the ones before
RetryIsBoundedWitness ==
    /\ gateway.fn = "generate_character_with_grok"
    /\ gateway.pc = "done"
    /\ Len(gateway.attempts) = retries
    /\ gateway.attempts[1] # gateway.attempts[retries]
    /\ gateway.result.type = "raise"

PageOf(matching, page, size) ==
    { x \in matching :
        LET position == Cardinality({ y \in matching : y < x }) IN
        /\ position >= (page - 1) * size
        /\ position <= page * size - 1 }

\* C31: a list answers at most size entities, all of the caller and, with a
\* status given, all of that status; they are the entries at positions
\* (page - 1) * size to page * size - 1 of the caller's entities of that
\* status, so the status is tested before offset and limit apply.
ListIsFilteredPage ==
    (last.op \in {"get_all_characters", "get_all_stories"})
    => LET query == last.body[1]
           table == IF last.op = "get_all_characters" THEN characters ELSE stories
           matching == { id \in DOMAIN table :
                           /\ table[id].user_id = last.user
                           /\ query.status # None => table[id].status = query.status[1] } IN
       /\ last.status_code = 200
       /\ Cardinality(last.returned) <= query.size
       /\ last.returned \subseteq matching
       /\ last.returned = PageOf(matching, query.page, query.size)

\* A page of size one of a status whose entry stands behind an entity of
\* the caller with another status
ListIsFilteredPageWitness ==
    /\ last.op = "get_all_characters"
    /\ last.body[1].status # None
    /\ last.body[1].size = 1
    /\ \E c \in last.returned, d \in DOMAIN characters :
         /\ d < c
         /\ characters[d].user_id = last.user
         /\ characters[d].status # last.body[1].status[1]

\* C34: once a character is stored as finalized no later commit changes any
\* of its fields, whatever request makes it: a request that read the
\* character before it was finalized does not write afterwards.
FinalizedImmutableUnderInterleaving ==
    [][\A c \in DOMAIN characters :
         characters[c].status = "finalized"
         => c \in DOMAIN characters' /\ characters'[c] = characters[c]]_vars

\* ------------------------------------------------------------------------
\* Frame of finalize
\* ------------------------------------------------------------------------
\* C35: a successful finalize of a character sets its status to finalized
\* and leaves its name, description, traits, story context and four
\* optimized fields, and every other character, as they were.
FinalizeChangesOnlyStatus ==
    [][(last'.op = "finalize_character" /\ last'.status_code = 200)
       => /\ DOMAIN characters' = DOMAIN characters
          /\ characters'[last'.id].status = "finalized"
          /\ \A column \in DOMAIN characters[last'.id] \ {"status"} :
               characters'[last'.id][column] = characters[last'.id][column]
          /\ \A c \in DOMAIN characters \ {last'.id} :
               characters'[c] = characters[c]]_vars

\* A character with a name and traits was finalized
FinalizeChangesOnlyStatusWitness ==
    /\ last.op = "finalize_character"
    /\ last.status_code = 200
    /\ characters[last.id].character_name # None
    /\ ~Falsy(characters[last.id].character_traits)

CreatedStoryIsDraft ==
    [][(last'.op = "create_story" /\ last'.status_code = 200)
       => /\ last'.id \notin DOMAIN stories
          /\ last'.id \in DOMAIN stories'
          /\ LET story == stories'[last'.id] IN
             /\ story.status = "draft"
             /\ story.character_roles = None
             /\ story.content = None
             /\ story.optimized_title = None
             /\ story.optimized_description = None
             /\ story.character_ids = last'.character_ids
             /\ story.user_id = last'.user
          /\ \A i \in 1..Len(images') : images'[i].story_id # last'.id]_vars

\* A story was created on two characters named in descending order
CreatedStoryIsDraftWitness ==
    /\ last.op = "create_story"
    /\ last.status_code = 200
    /\ Len(last.character_ids) = 2
    /\ last.character_ids[1] > last.character_ids[2]

\* ------------------------------------------------------------------------
\* Legacy router and CharacterService
\* ------------------------------------------------------------------------
\* C38: after every sequence of create, generate, update and finalize calls
\* made on both, the legacy router and CharacterService accepted or
\* rejected the last call alike and hold the same characters with the same
\* status and the same null pattern of the four optimized fields.
LegacyAgreesWithService ==
    /\ last.op # "none" => (last.status_code = 200) = (legacy.status_code = 200)
    /\ DOMAIN characters = DOMAIN legacy.characters
    /\ \A c \in DOMAIN characters \cap DOMAIN legacy.characters :
         /\ characters[c].status = legacy.characters[c].status
         /\ \A f \in OptimizedFields :
              (characters[c][f] = None) = (legacy.characters[c][f] = None)
====
